---- MODULE Spec2Model ----
(***************************************************************************)
(* Model of seclib: the Sec<S, A> container (src/src/lib.rs) and the       *)
(* SecurityLevel<LessThan> trait with its impls                            *)
(* (src/src/security_level.rs).                                            *)
(*                                                                         *)
(* The crate decides every crossing at compile time, by trait resolution.  *)
(* The model makes a call whose bounds are not satisfied a rejected call:  *)
(* it is recorded in `last` with ok = FALSE and changes nothing else.      *)
(* A pair <<X, Y>> of `decl` stands for `impl SecurityLevel<Y> for X`,     *)
(* that is "X dominates Y".                                                *)
(***************************************************************************)
EXTENDS Naturals, Integers, Sequences, FiniteSets, TLC

VARIABLES
    decl,   \* the impls of SecurityLevel<_> in the program (fixed at build)
    heap,   \* every Sec instance ever built, in order of creation
    live,   \* ids of the instances that have not been moved out of
    made,   \* per instance: the instance and the operation it came from
    last    \* the last call: its arguments and what the caller got back

vars == <<decl, heap, live, made, last>>

\* ---------------------------------------------------------------- bounds
MaxInst == 3
MaxData == 4

Data == 0..MaxData
SeedData == {0, 1}

\* ------------------------------------------------------ security_level.rs
\* Low and High are the crate's marker types; Mid is one a user crate adds.
LibTypes == {"Low", "High"}
UserTypes == {"Mid"}
Types == LibTypes \cup UserTypes

\* impl SecurityLevel for Low, impl SecurityLevel<Low> for High,
\* impl SecurityLevel for High
LibImpls == {<<"Low", "Low">>, <<"High", "Low">>, <<"High", "High">>}

\* impls a user crate may add: the orphan rule asks for a local type in them
UserImpls == {p \in Types \X Types : p[1] \in UserTypes \/ p[2] \in UserTypes}

\* trait SecurityLevel<LessThan = Self> where LessThan: SecurityLevel:
\* an impl for <<X, Y>> is accepted only when Y: SecurityLevel<Y>
WellFormed(d) == \A p \in d : <<p[2], p[2]>> \in d

ImplementsTrans(d, T, LessThan) ==
    \/ <<T, LessThan>> \in d
    \/ \E m \in Types : <<T, m>> \in d /\ <<m, LessThan>> \in d

\* T: SecurityLevel<LessThan>, resolved against the declared impls only
Implements(d, T, LessThan) == <<T, LessThan>> \in d

IsSecurityLevelAny(d, S) == S \in Types

\* S: SecurityLevel, i.e. S: SecurityLevel<S> (the default parameter)
IsSecurityLevel(d, S) == Implements(d, S, S)

\* ----------------------------------------------------------------- lib.rs
\* the caller-supplied function of the tests: |i| i + 2
Fns == {"add2"}

Apply(f, x) == IF f = "add2" THEN x + 2 ELSE x

\* Sec::new (and From<A>::from, which calls it)
new(S, data) == [data |-> data, security_level |-> S]

mapTwice(self, f) ==
    [sec   |-> [data |-> Apply(f, Apply(f, self.data)),
                security_level |-> self.security_level],
     calls |-> <<<<f, self.data>>, <<f, Apply(f, self.data)>>>>]

\* Sec::map: the new Sec and the invocations of f it made
map(self, f) ==
    [sec   |-> [data |-> Apply(f, self.data),
                security_level |-> self.security_level],
     calls |-> <<<<f, self.data>>>>]

\* Sec::and_then: k is a continuation |x| Sec::<k.level, _>::new(k.fn(x));
\* its result is returned as it is
and_then(self, k) ==
    [sec   |-> new(k.level, Apply(k.fn, self.data)),
     calls |-> <<<<k.fn, self.data>>>>]

and_thenBoundAny(d, self, k) == IsSecurityLevel(d, k.level)

\* F: FnOnce(A) -> Sec<S, B>: the continuation's level is the receiver's
and_thenBound(d, self, k) == k.level = self.security_level

crossBoundNone(d, S, S2) == IsSecurityLevel(d, S2)

crossBoundTrans(d, S, S2) == ImplementsTrans(d, S2, S) /\ IsSecurityLevel(d, S2)

crossBoundFlipped(d, S, S2) == Implements(d, S, S2) /\ IsSecurityLevel(d, S2)

\* where S2: sl::SecurityLevel<S> + sl::SecurityLevel (reveal and lift)
crossBound(d, S, S2) == Implements(d, S2, S) /\ IsSecurityLevel(d, S2)

\* Sec::reveal
reveal(self, S2) == self.data

liftKeep(self, S2) == new(self.security_level, self.data)

\* Sec::lift
lift(self, S2) == new(S2, self.data)

\* #[derive(Debug)]: the struct's name and its two fields
fmt(self) == <<"Sec", "security_level", "PhantomData", "data", self.data>>

\* #[derive(PartialEq)]: PhantomData == PhantomData, then the payloads
eq(self, other) == self.data = other.data

\* #[derive(Clone)]
clone(self) == [data |-> self.data, security_level |-> self.security_level]

MoveKeep(l, i) == l

\* a `self` receiver moves the instance out of its binding
Move(l, i) == l \ {i}

\* ------------------------------------------------------------ the program
Ids == 1..Len(heap)

NoCall == [op |-> "none", ok |-> TRUE, src |-> 0, other |-> 0, dst |-> 0,
           lvl |-> "-", f |-> "-", out |-> <<>>, calls |-> <<>>]

Call(op, ok, src, other, dst, lvl, f, out, calls) ==
    [op |-> op, ok |-> ok, src |-> src, other |-> other, dst |-> dst,
     lvl |-> lvl, f |-> f, out |-> out, calls |-> calls]

Init ==
    /\ decl \in {LibImpls \cup u : u \in SUBSET UserImpls}
    /\ WellFormed(decl)
    /\ heap = <<>>
    /\ live = {}
    /\ made = <<>>
    /\ last = NoCall

\* a rejected call: nothing but the record of it changes
Rejected(op, src, other, lvl, f) ==
    /\ last' = Call(op, FALSE, src, other, 0, lvl, f, <<>>, <<>>)
    /\ UNCHANGED <<decl, heap, live, made>>

\* a call that builds a Sec from `src` (0: from a raw value); a use of a
\* moved instance does not compile, so every action asks for a live one
Built(op, src, consumed, sec, lvl, f, calls) ==
    /\ Len(heap) < MaxInst
    /\ sec.data \in Data
    /\ heap' = Append(heap, sec)
    /\ made' = Append(made, [parent |-> src, by |-> op])
    /\ live' = (IF consumed THEN Move(live, src) ELSE live) \cup {Len(heap) + 1}
    /\ last' = Call(op, TRUE, src, 0, Len(heap) + 1, lvl, f, <<>>, calls)
    /\ UNCHANGED decl

\* the program wraps one raw value; every other instance derives from it
New(S, d) ==
    /\ heap = <<>>
    /\ IF IsSecurityLevel(decl, S)
       THEN Built("new", 0, FALSE, new(S, d), S, "-", <<>>)
       ELSE Rejected("new", 0, 0, S, "-")

Map(i, f) ==
    /\ i \in live
    /\ LET r == map(heap[i], f)
       IN Built("map", i, TRUE, r.sec, "-", f, r.calls)

AndThen(i, k) ==
    /\ i \in live
    /\ IF IsSecurityLevel(decl, k.level) /\ and_thenBound(decl, heap[i], k)
       THEN LET r == and_then(heap[i], k)
            IN Built("and_then", i, TRUE, r.sec, k.level, k.fn, r.calls)
       ELSE Rejected("and_then", i, 0, k.level, k.fn)

Reveal(i, S2) ==
    /\ i \in live
    /\ IF crossBound(decl, heap[i].security_level, S2)
       THEN /\ last' = Call("reveal", TRUE, i, 0, 0, S2, "-",
                            <<reveal(heap[i], S2)>>, <<>>)
            /\ live' = Move(live, i)
            /\ UNCHANGED <<decl, heap, made>>
       ELSE Rejected("reveal", i, 0, S2, "-")

Lift(i, S2) ==
    /\ i \in live
    /\ IF crossBound(decl, heap[i].security_level, S2)
       THEN Built("lift", i, TRUE, lift(heap[i], S2), S2, "-", <<>>)
       ELSE Rejected("lift", i, 0, S2, "-")

Clone(i) ==
    /\ i \in live
    /\ Built("clone", i, FALSE, clone(heap[i]), "-", "-", <<>>)

Fmt(i) ==
    /\ i \in live
    /\ last' = Call("fmt", TRUE, i, 0, 0, "-", "-", fmt(heap[i]), <<>>)
    /\ UNCHANGED <<decl, heap, live, made>>

\* PartialEq is derived for Sec<S, A> against Sec<S, A> only
Eq(i, j) ==
    /\ i \in live /\ j \in live
    /\ IF heap[i].security_level = heap[j].security_level
       THEN /\ last' = Call("eq", TRUE, i, j, 0, "-", "-",
                            <<eq(heap[i], heap[j])>>, <<>>)
            /\ UNCHANGED <<decl, heap, live, made>>
       ELSE Rejected("eq", i, j, "-", "-")

Next ==
    \/ \E S \in Types, d \in SeedData : New(S, d)
    \/ \E i \in Ids, f \in Fns : Map(i, f)
    \/ \E i \in Ids, f \in Fns, S \in Types : AndThen(i, [fn |-> f, level |-> S])
    \/ \E i \in Ids, S2 \in Types : Reveal(i, S2)
    \/ \E i \in Ids, S2 \in Types : Lift(i, S2)
    \/ \E i \in Ids : Clone(i)
    \/ \E i \in Ids : Fmt(i)
    \/ \E i \in Ids, j \in Ids : Eq(i, j)

Spec == Init /\ [][Next]_vars

\* ------------------------------------------------------- lineage (history)
Level(i) == heap[i].security_level

RECURSIVE Root(_)
Root(i) == IF made[i].parent = 0 THEN i ELSE Root(made[i].parent)

RECURSIVE Ancestors(_)
Ancestors(i) ==
    IF made[i].parent = 0 THEN {}
    ELSE {made[i].parent} \cup Ancestors(made[i].parent)

\* the instances built by moving i into map, and_then or lift
Successors(i) == {j \in Ids : made[j].parent = i /\ made[j].by # "clone"}

\* A over some B and B over C are declared, A over C is not
ChainOnly(A, C) ==
    /\ <<A, C>> \notin decl
    /\ \E B \in Types : <<A, B>> \in decl /\ <<B, C>> \in decl

Crossing == {"reveal", "lift"}
Consuming == {"map", "and_then", "lift", "reveal"}

\* what the caller gets to see of a call besides a Sec
Output(op, self, other) ==
    CASE op = "fmt" -> fmt(self)
      [] op = "eq"  -> <<eq(self, other)>>
      [] OTHER      -> <<>>

\* ----------------------------------------------------------------- claims

\* C1: reveal(v, P) yields only under a declared (P over L); for a level P
\* it succeeds exactly when (P over L) is declared; a success returns v's
\* payload and a rejected call returns nothing.
C1_RevealSound ==
    last.op = "reveal" =>
        LET v == heap[last.src]
            P == last.lvl
        IN /\ last.ok => <<P, v.security_level>> \in decl
           /\ <<P, P>> \in decl =>
                  (last.ok <=> <<P, v.security_level>> \in decl)
           /\ last.ok => last.out = <<v.data>>
           /\ ~last.ok => last.out = <<>> /\ last.src \in live

C1_Witness ==
    /\ last.op = "reveal" /\ last.ok
    /\ heap[last.src].security_level = "Low" /\ last.lvl = "High"
    /\ last.out = <<heap[last.src].data>>

\* C2: lift(v, P) succeeds, for a level P, exactly when (P over L) is
\* declared; the result is at level P and holds v's payload.
C2_LiftSound ==
    last.op = "lift" =>
        LET v == heap[last.src]
            P == last.lvl
        IN /\ last.ok => <<P, v.security_level>> \in decl
           /\ <<P, P>> \in decl =>
                  (last.ok <=> <<P, v.security_level>> \in decl)
           /\ last.ok => /\ last.dst \in live
                         /\ heap[last.dst].security_level = P
                         /\ heap[last.dst].data = v.data
           /\ ~last.ok => last.dst = 0 /\ last.src \in live

C2_Witness ==
    /\ last.op = "lift" /\ last.ok
    /\ heap[last.src].security_level = "Low" /\ last.lvl = "High"
    /\ heap[last.dst] = [data |-> heap[last.src].data, security_level |-> "High"]

\* C3 (as claimed): whatever a call other than reveal hands back to the
\* caller is the same for every payload the labeled value could hold.
C3_PayloadOpaque ==
    (last.ok /\ last.op \in {"fmt", "eq", "clone", "map", "and_then", "lift", "new"}
             /\ last.src # 0) =>
        \A d \in Data :
            Output(last.op, [heap[last.src] EXCEPT !.data = d],
                   IF last.other = 0 THEN heap[last.src] ELSE heap[last.other])
                = last.out

\* C4 (as claimed): with A over B and B over C declared and A over C not,
\* no instance derived from a value built at C is ever at level A, and no
\* reveal with proof A returns such a value's payload.
C4_NoChainUse ==
    /\ \A i \in Ids : ~ChainOnly(Level(i), Level(Root(i)))
    /\ (last.op = "reveal" /\ last.ok) =>
           ~ChainOnly(last.lvl, Level(Root(last.src)))

\* C4 (amended): such a value reaches level A, or is revealed with proof A,
\* only after lifts along declared edges that took it through a level other
\* than A and C; no single call takes it there.
C4_ChainStepwise ==
    /\ \A i \in Ids :
           ChainOnly(Level(i), Level(Root(i))) =>
               \E j \in Ancestors(i) :
                   /\ Level(j) \notin {Level(i), Level(Root(i))}
                   /\ <<Level(j), Level(Root(i))>> \in decl
    /\ (last.op = "reveal" /\ last.ok /\ ChainOnly(last.lvl, Level(Root(last.src)))) =>
           /\ Level(last.src) # Level(Root(last.src))
           /\ <<last.lvl, Level(last.src)>> \in decl

C4_Witness ==
    \E i \in Ids :
        /\ ChainOnly(Level(i), Level(Root(i)))
        /\ made[i].by = "lift"
        /\ made[made[i].parent].by = "lift"

\* C5: a single reveal or lift with level A on a value at level C is
\* rejected when A over C is reachable only through a chain of declared
\* pairs.
C5_NoTransitivity ==
    (last.op \in Crossing /\ ChainOnly(last.lvl, Level(last.src))) => ~last.ok

C5_Witness ==
    /\ last.op = "reveal" /\ ~last.ok
    /\ ChainOnly(last.lvl, Level(last.src))
    /\ last.src \in live

\* C6: map calls f once, on the payload, and returns a Sec at the same
\* level holding f(payload); it is open to every live value whatever the
\* declared relation is.
C6_MapOnce ==
    /\ last.op = "map" =>
           LET v == heap[last.src]
           IN /\ last.ok
              /\ last.calls = <<<<last.f, v.data>>>>
              /\ heap[last.dst].security_level = v.security_level
              /\ heap[last.dst].data = Apply(last.f, v.data)
    /\ \A i \in live, f \in Fns :
           (Len(heap) < MaxInst /\ Apply(f, heap[i].data) \in Data)
               => ENABLED Map(i, f)

C6_Witness ==
    /\ last.op = "map" /\ last.ok
    /\ heap[last.src].security_level = "High"
    /\ heap[last.dst] = [data |-> heap[last.src].data + 2, security_level |-> "High"]

\* C7: and_then calls the continuation once on the payload and returns its
\* result as it is, at the receiver's level; a continuation for another
\* level is rejected.
C7_AndThenSameLevel ==
    last.op = "and_then" =>
        LET v == heap[last.src]
        IN /\ last.ok <=> last.lvl = v.security_level
           /\ last.ok =>
                  /\ last.calls = <<<<last.f, v.data>>>>
                  /\ heap[last.dst] = new(last.lvl, Apply(last.f, v.data))
                  /\ heap[last.dst].security_level = v.security_level
           /\ ~last.ok => last.dst = 0 /\ last.src \in live

C7_Witness ==
    /\ last.op = "and_then" /\ last.ok
    /\ heap[last.src].security_level = "High"
    /\ heap[last.dst].data = heap[last.src].data + 2

\* C8: an instance differs in level from the one it was built from only if
\* a lift built it, and then its level is declared over the other's.
C8_NoDowngrade ==
    \A i \in Ids :
        LET p == made[i].parent
        IN (p # 0 /\ Level(i) # Level(p)) =>
               /\ made[i].by = "lift"
               /\ <<Level(i), Level(p)>> \in decl

C8_Witness ==
    \E i \in Ids :
        /\ made[i].by = "lift"
        /\ Level(i) # Level(made[i].parent)
        /\ \E j \in Ids : made[j].parent = i /\ made[j].by \in {"map", "and_then"}

\* C9: the level of every labeled value dominates itself, so reveal and
\* lift with the value's own level succeed: reveal returns the payload and
\* lift an equal value.
C9_Reflexive ==
    /\ \A i \in Ids : <<Level(i), Level(i)>> \in decl
    /\ (last.op \in Crossing /\ last.lvl = Level(last.src)) =>
           /\ last.ok
           /\ last.op = "reveal" => last.out = <<heap[last.src].data>>
           /\ last.op = "lift" => heap[last.dst] = heap[last.src]

C9_Witness ==
    /\ last.op = "lift" /\ last.ok
    /\ last.lvl = Level(last.src)
    /\ Level(last.src) = "Mid"

\* C10: map, and_then, lift and reveal move their receiver: it is not live
\* afterwards, at most one instance is built from it, a live instance has
\* not been built from, and a moved instance stays moved and is never built
\* from again.
C10_MovedNow ==
    /\ (last.ok /\ last.op \in Consuming) => last.src \notin live
    /\ \A i \in Ids :
           /\ Cardinality(Successors(i)) <= 1
           /\ i \in live => Successors(i) = {}

C10_StaysMoved ==
    \A i \in Ids :
        i \notin live =>
            /\ i \notin live'
            /\ {j \in 1..Len(heap') : made'[j].parent = i} =
               {j \in Ids : made[j].parent = i}

====
